---- MODULE Spec2Model ----
(***************************************************************************)
(* Test Session Engine of ecet_prep: the TestEnvironment component in its  *)
(* three source variants.                                                  *)
(*   "Eager"  src/src/components/TestEnvironment.tsx lines 1-475           *)
(*            placeholder slots, all windows loaded in a loop              *)
(*   "Gated"  src/src/components/TestEnvironment.tsx lines 477-940         *)
(*            (same logic as src/unnamed/part_008): questions appended,    *)
(*            Unlock Next when the window is complete                      *)
(*   "Grid"   src/unnamed/part_007: questions appended, Unlock Next when   *)
(*            the candidate stands on the last question                    *)
(* Indices are 0-based as in the source: questions and answers are         *)
(* functions over 0..n-1.                                                  *)
(***************************************************************************)
EXTENDS Integers, FiniteSets, Sequences, Bags, TLC

(* ---------------- bounds (scaled program constants) ---------------- *)
\* questions per window of a Full test (50 in the source)
WindowSize == 2
\* windows of a Full test (4 in the source)
NumWindows == 2
\* slots of a Full test's placeholder array (200 in the source)
FullTotal == 4
\* questions of a Subject test (30 in the source)
SubjectCount == 2
\* options per question (4 in the source)
NumOptions == 2
\* seconds of a Full test (180 * 60 in the source)
FullSeconds == 2
\* seconds per question of a Subject test (60 in the source)
SecondsPerQuestion == 1
\* questions per generation batch (25 in the source)
BatchSize == 1
\* static questions blended into a Full window (10) and a Subject test (5)
StaticFull == 1
StaticSubject == 1
\* caps on candidate actions that the source does not bound
MaxSubmitCalls == 2
MaxBookmarkCalls == 2
\* most question slots the candidate answers in one run (re-answering is free)
MaxAnswered == 2
\* most questions a generation response carries beyond the number asked for
MaxSurplus == 1

Variants == {"Eager", "Gated", "Grid"}
Types == {"Full", "Subject"}
Options == 0 .. (NumOptions - 1)

VARIABLES variant, type, syllabus, questions, currentIndex, answers, isSubmitted,
          loading, loadingNext, timeLeft, bookmarked, currentWindow,
          inflight, requested, saved, submitCalls, navigated,
          bmPending, bmAcked, bmCalls, failed, saveReplies

config == <<variant, type, syllabus>>
view == <<questions, currentIndex, answers, isSubmitted, loading, loadingNext,
          timeLeft, bookmarked, currentWindow>>
env == <<inflight, requested, saved, submitCalls, navigated, bmPending,
         bmAcked, bmCalls, failed, saveReplies>>
vars == <<config, view, env>>

(* ---------------- values ---------------- *)
\* a Locked slot: the null placeholder of the Eager variant
NULL == [correctAnswer |-> -1, win |-> -1, subject |-> "null"]
\* no load in flight; of a load: its window, allQuestions.length of its
\* generateQuestions call, and the batch requests that call has issued
NONE == [win |-> -1, got |-> 0, reqs |-> 0]

\* a delivered question: its correct option, the window whose load delivered
\* it, and its subject
Question(c, w, sub) == [correctAnswer |-> c, win |-> w, subject |-> sub]

\* the head of the subjectOrder table of loadWindow (16 subjects in the source)
subjectOrder == <<"Mathematics", "Physics">>

\* subjectOrder.indexOf(sub), 0-based, -1 for a subject the table lacks
indexOf(sub) ==
  IF \E k \in DOMAIN subjectOrder : subjectOrder[k] = sub
  THEN (CHOOSE k \in DOMAIN subjectOrder : subjectOrder[k] = sub) - 1
  ELSE -1

Min(a, b) == IF a < b THEN a ELSE b
Max(a, b) == IF a > b THEN a ELSE b

\* questions.length
Length(qs) == Cardinality(DOMAIN qs)

\* [...prev, ...more] with more a 1-based sequence
Concat(qs, more) ==
  [i \in 0 .. (Length(qs) + Len(more) - 1) |->
     IF i < Length(qs) THEN qs[i] ELSE more[i - Length(qs) + 1]]

(* ---------------- derived constants of the component ---------------- *)
totalQuestionsCount == IF type = "Full" THEN FullTotal ELSE SubjectCount
count == IF type = "Full" THEN WindowSize ELSE SubjectCount
\* variant of startOffset: every window fills from the top of the array
startOffset_Zero(windowIdx) == 0

\* `const startOffset = windowIdx * 50`
startOffset(windowIdx) == windowIdx * WindowSize
totalSeconds == IF type = "Full" THEN FullSeconds ELSE count * SecondsPerQuestion

(* ---------------- rendering ---------------- *)
\* the render of the test view throws (no error boundary in App.tsx): the
\* Eager review summary dereferences every slot, the appending variants
\* dereference questions[currentIndex]
RenderThrowsEager == ~loading /\ isSubmitted /\ \E i \in DOMAIN questions : questions[i] = NULL
RenderThrowsAppend == ~loading /\ currentIndex \notin DOMAIN questions
RenderThrows == IF variant = "Eager" THEN RenderThrowsEager ELSE RenderThrowsAppend

\* the component is mounted: state setters still take effect
Mounted == ~navigated /\ ~RenderThrows
\* the test view (not the loading screen) is on screen
Displayed == Mounted /\ ~loading

(* ---------------- ScoringEngine as the code computes it ---------------- *)
\* questions.filter(q => q !== null), as the set of kept indices
validIdx(qs) == {i \in DOMAIN qs : qs[i] # NULL}
\* position of slot i inside validQuestions
rankIn(qs, i) == Cardinality({j \in validIdx(qs) : j < i})

\* Eager handleSubmit: the reduce runs over validQuestions with ITS index
scoreEager(qs, ans) ==
  Cardinality({i \in validIdx(qs) :
     /\ rankIn(qs, i) \in DOMAIN ans
     /\ ans[rankIn(qs, i)] = qs[i].correctAnswer})
totalEager(qs) == Cardinality(validIdx(qs))

\* Gated / Grid handleSubmit: reduce over questions, total = questions.length
scoreAppend(qs, ans) ==
  Cardinality({i \in DOMAIN qs : i \in DOMAIN ans /\ ans[i] = qs[i].correctAnswer})
totalAppend(qs) == Length(qs)

score(qs, ans) == IF variant = "Eager" THEN scoreEager(qs, ans) ELSE scoreAppend(qs, ans)
total(qs) == IF variant = "Eager" THEN totalEager(qs) ELSE totalAppend(qs)

\* Math.round(score / total * 100): nearest integer, halves up; -1 is NaN
accuracy(s, t) == IF t = 0 THEN -1 ELSE (200 * s + t) \div (2 * t)

\* the Test Summary panel of the review screen: the reduce runs over
\* `questions` itself and the denominator is questions.length
reviewSummary ==
  [score |-> scoreAppend(questions, answers),
   total |-> Length(questions),
   accuracy |-> accuracy(scoreAppend(questions, answers), Length(questions))]

(* ---------------- Init: after mount, loadWindow(0) started ---------------- *)
InitSession ==
  /\ variant \in Variants
  /\ type \in Types
  /\ questions = IF variant = "Eager"
                 THEN [i \in 0 .. (totalQuestionsCount - 1) |-> NULL]
                 ELSE << >>
  /\ currentIndex = 0
  /\ answers = << >>
  /\ isSubmitted = FALSE
  /\ loading = TRUE
  /\ loadingNext = FALSE
  /\ timeLeft = 0
  /\ bookmarked = {}
  /\ currentWindow = 0
  /\ inflight = [win |-> 0, got |-> 0, reqs |-> 0]
  /\ requested = <<0>>
  /\ saved = << >>
  /\ submitCalls = 0
  /\ navigated = FALSE
  /\ bmPending = EmptyBag
  /\ bmAcked = {}
  /\ bmCalls = 0
  /\ failed = {}
  /\ saveReplies = << >>

\* sessions whose question source answers with questions of one subject
Init == InitSession /\ syllabus = {subjectOrder[1]}

\* Full sessions whose question source answers with questions of any subject
\* of the table, in any order
InitSubjects ==
  InitSession /\ type = "Full" /\ syllabus = {subjectOrder[k] : k \in DOMAIN subjectOrder}


(* ---------------- WindowLoader ---------------- *)
\* the k-th question (k = 0, 1, ...) that the load of window w delivers; its
\* correct option cycles through the options so that neighbouring slots differ
Generated(w, k, sub) == Question((w + k) % NumOptions, w, sub)

\* the next questions of window w after `got` were delivered (1-based), with
\* the subjects subs[1], subs[2], ... the source gave them
Delivery(w, got, subs) ==
  [j \in 1 .. Len(subs) |-> Generated(w, got + j - 1, subs[j])]

\* the subjects a response of n questions may carry
subjectsOf(n) == [1 .. n -> syllabus]

\* Eager onBatch: `while (next[firstNull] !== null && firstNull < next.length)`
RECURSIVE firstNull(_, _)
firstNull(qs, from) ==
  IF from < Length(qs) /\ qs[from] # NULL THEN firstNull(qs, from + 1) ELSE from

\* variant of fillOne: the question is written at the window's start offset
fillOne_AtOffset(qs, off, q) ==
  IF off < Length(qs) THEN [qs EXCEPT ![off] = q] ELSE qs

\* Eager onBatch body for one question of the batch
fillOne(qs, off, q) ==
  IF firstNull(qs, off) < Length(qs)
  THEN [qs EXCEPT ![firstNull(qs, off)] = q]
  ELSE qs

\* Eager onBatch: batch.forEach over the arriving batch (a 1-based sequence)
RECURSIVE fillBatch(_, _, _)
fillBatch(qs, off, batch) ==
  IF batch = << >> THEN qs
  ELSE fillBatch(fillOne(qs, off, Head(batch)), off, Tail(batch))

\* the streaming generator of the Eager variant hands over batches of at most
\* BatchSize questions, never more than `count` in total
Batches(got) ==
  UNION {{Delivery(inflight.win, got, subs) : subs \in subjectsOf(n)} :
           n \in 1 .. Min(BatchSize, count - got)}

\* variant of nextInLoop: the loop index is not advanced
nextInLoop_Repeats(i) == i

\* Eager loadAll: the `i++` of the for loop
nextInLoop(i) == i + 1

\* Eager loadAll: `for (i = 0; i < 4; i++) await loadWindow(i)`; the loop goes
\* on after loadWindow has returned, whether it loaded or caught a failure
loadAllContinues(w) == type = "Full" /\ nextInLoop(w) < NumWindows

\* Eager: what follows `await generateQuestions(...)` in loadWindow(w), and
\* the next turn of the loadAll loop with the synchronous start of
\* loadWindow(w + 1)
loadWindowReturnsEager(w) ==
  /\ IF loadAllContinues(w)
     THEN /\ inflight' = [win |-> nextInLoop(w), got |-> 0, reqs |-> 0]
          /\ requested' = Append(requested, nextInLoop(w))
     ELSE /\ inflight' = NONE
          /\ UNCHANGED requested
  /\ IF Mounted
     THEN /\ timeLeft' = IF w = 0 THEN totalSeconds ELSE timeLeft
          /\ loadingNext' = IF loadAllContinues(w) THEN TRUE
                            ELSE IF w = 0 THEN loadingNext ELSE FALSE
     ELSE UNCHANGED <<timeLeft, loadingNext>>

\* Eager: a batch arrives through the onBatch callback of loadWindow; the
\* batch that completes `count` is the last one, the generator returns
\* without another request and loadWindow goes on in the same task
BatchArrive ==
  /\ variant = "Eager"
  /\ inflight # NONE
  /\ \E batch \in Batches(inflight.got) :
       /\ IF Mounted
          THEN /\ questions' = fillBatch(questions, startOffset(inflight.win), batch)
               /\ loading' = IF inflight.win = 0 THEN FALSE ELSE loading
          ELSE UNCHANGED <<questions, loading>>
       /\ IF inflight.got + Len(batch) >= count
          THEN loadWindowReturnsEager(inflight.win)
          ELSE /\ inflight' = [inflight EXCEPT !.got = @ + Len(batch)]
               /\ UNCHANGED <<requested, timeLeft, loadingNext>>
  /\ UNCHANGED <<config, currentIndex, answers, isSubmitted, bookmarked,
                 currentWindow, saved, saveReplies, submitCalls, navigated,
                 failed, bmPending, bmAcked, bmCalls>>

\* Eager: generateQuestions resolved short of `count` (a later batch failed,
\* or the batches came back smaller than asked)
loadWindowDoneEager ==
  /\ variant = "Eager"
  /\ inflight # NONE
  /\ loadWindowReturnsEager(inflight.win)
  /\ UNCHANGED <<config, questions, currentIndex, answers, isSubmitted, loading,
                 bookmarked, currentWindow, saved, saveReplies, submitCalls,
                 navigated, failed, bmPending, bmAcked, bmCalls>>

\* variant of generateThrows: a failed batch always rejects the whole call
generateThrows_Always(got) == TRUE

\* generateQuestions throws only while nothing has been accumulated
generateThrows(got) == got = 0

\* Eager: generateQuestions rejected; catch: alert, navigate('/dashboard')
loadWindowFailedEager ==
  /\ variant = "Eager"
  /\ inflight # NONE
  /\ generateThrows(inflight.got)
  /\ navigated' = TRUE
  /\ failed' = failed \cup {inflight.win}
  /\ IF loadAllContinues(inflight.win)
     THEN /\ inflight' = [win |-> nextInLoop(inflight.win), got |-> 0, reqs |-> 0]
          /\ requested' = Append(requested, nextInLoop(inflight.win))
     ELSE /\ inflight' = NONE
          /\ UNCHANGED requested
  /\ UNCHANGED <<config, view, saved, saveReplies, submitCalls, bmPending, bmAcked, bmCalls>>

\* Gated blend: [...aiQuestions.slice(0, count - k), ...static.slice(0, k)],
\* or the generated questions alone when the static fetch throws
mixedCount(ai, staticOk, st) ==
  IF ~staticOk THEN ai
  ELSE Min(ai, count - (IF type = "Full" THEN StaticFull ELSE StaticSubject)) + st

staticTake == IF type = "Full" THEN StaticFull ELSE StaticSubject

\* generateQuestions of gemini.ts: `Math.ceil(count / batchSize)`
batches == (count + BatchSize - 1) \div BatchSize

\* `Math.min(batchSize, count - allQuestions.length)`
currentBatchSize(got) == Min(BatchSize, count - got)

\* the for loop issues another batch request: `i < batches` and no
\* `if (currentBatchSize <= 0) break`
loopContinues ==
  inflight.reqs < batches /\ currentBatchSize(inflight.got) > 0

\* the sizes a parsed response may have when `asked` questions were asked
\* for: none (empty text or []), fewer, as many, or a few more
Responses(asked) == 0 .. (asked + MaxSurplus)

\* generateQuestions of gemini.ts inside a Gated or Grid load: a batch
\* request was answered, `allQuestions = [...allQuestions, ...batchQuestions]`
batchAccumulated ==
  /\ variant \in {"Gated", "Grid"}
  /\ inflight # NONE
  /\ loopContinues
  /\ \E n \in Responses(currentBatchSize(inflight.got)) :
       inflight' = [inflight EXCEPT !.got = @ + n, !.reqs = @ + 1]
  /\ UNCHANGED <<config, view, requested, saved, saveReplies, submitCalls,
                 navigated, failed, bmPending, bmAcked, bmCalls>>

\* variant of returned: the accumulated questions are returned uncut
returned_Unsliced(got) == got

\* `return allQuestions.slice(0, count)`, as a number of questions
returned(got) == Min(got, count)

\* generateQuestions resolves: the loop has ended, or a batch request failed
\* with questions accumulated (`break`)
generateReturns == ~loopContinues \/ ~generateThrows(inflight.got)

\* number of questions a resolved load appends: what generateQuestions
\* returned, blended with the static questions in the Gated variant
DeliveredCounts ==
  IF variant = "Gated"
  THEN {mixedCount(returned(inflight.got), ok, st) : ok \in BOOLEAN, st \in 0 .. staticTake}
  ELSE {returned(inflight.got)}

\* the questions of seq whose subject has index r in subjectOrder
withIndex(seq, r) == SelectSeq(seq, LAMBDA q : indexOf(q.subject) = r)

\* `mixedQuestions.sort((a, b) => subjectOrder.indexOf(a.subject) -
\* subjectOrder.indexOf(b.subject))`: a stable sort on the index
RECURSIVE sortFrom(_, _)
sortFrom(seq, r) ==
  IF r > Len(subjectOrder) - 1 THEN << >>
  ELSE withIndex(seq, r) \o sortFrom(seq, r + 1)
sortBySubject(seq) == sortFrom(seq, -1)

\* the Gated variant sorts the blend of a Full window; the Grid variant
\* appends what generateQuestions returned
sequenced(seq) ==
  IF variant = "Gated" /\ type = "Full" THEN sortBySubject(seq) ELSE seq

\* what a resolved load of window w appends when it brings n questions
Mixed(w, n) == {sequenced(Delivery(w, 0, subs)) : subs \in subjectsOf(n)}

\* Gated / Grid: the load resolved, `setQuestions(prev => [...prev, ...mixed])`
loadWindowDoneAppend ==
  /\ variant \in {"Gated", "Grid"}
  /\ inflight # NONE
  /\ generateReturns
  /\ inflight' = NONE
  /\ \E n \in DeliveredCounts : \E mixed \in Mixed(inflight.win, n) :
       IF Mounted
       THEN /\ questions' = Concat(questions, mixed)
            /\ timeLeft' = IF inflight.win = 0 THEN totalSeconds ELSE timeLeft
            /\ loading' = IF inflight.win = 0 \/ variant = "Grid" THEN FALSE ELSE loading
            /\ loadingNext' = IF inflight.win # 0 \/ variant = "Grid" THEN FALSE ELSE loadingNext
       ELSE UNCHANGED <<questions, timeLeft, loading, loadingNext>>
  /\ UNCHANGED <<config, currentIndex, answers, isSubmitted, bookmarked,
                 currentWindow, requested, saved, saveReplies, submitCalls, navigated, failed,
                 bmPending, bmAcked, bmCalls>>

\* Gated / Grid: a batch request failed with nothing accumulated and
\* generateQuestions rejected; catch: alert, navigate; the Grid
\* variant clears both loading flags in its finally block
loadWindowFailedAppend ==
  /\ variant \in {"Gated", "Grid"}
  /\ inflight # NONE
  /\ loopContinues
  /\ generateThrows(inflight.got)
  /\ inflight' = NONE
  /\ navigated' = TRUE
  /\ failed' = failed \cup {inflight.win}
  /\ IF Mounted /\ variant = "Grid"
     THEN loading' = FALSE /\ loadingNext' = FALSE
     ELSE UNCHANGED <<loading, loadingNext>>
  /\ UNCHANGED <<config, questions, currentIndex, answers, isSubmitted, timeLeft,
                 bookmarked, currentWindow, requested, saved, saveReplies, submitCalls,
                 bmPending, bmAcked, bmCalls>>


\* a second call of loadWindow is followed at most this often
MaxReloads == 1

\* the windows requested so far, and how many requests repeated one
requestedSet == {requested[k] : k \in DOMAIN requested}
reloads == Len(requested) - Cardinality(requestedSet)

\* every slot of window w is Loaded: the window's range of the placeholder
\* array holds no null (Eager), or its load brought all `count` questions
windowLoaded(w) ==
  IF variant = "Eager"
  THEN /\ startOffset(w) < Length(questions)
       /\ \A i \in startOffset(w) .. (Min(startOffset(w) + count, Length(questions)) - 1) :
            questions[i] # NULL
  ELSE Cardinality({i \in DOMAIN questions : questions[i].win = w}) = count

\* loadWindow(0) of the Eager variant starts with
\* `setQuestions(new Array(totalQuestionsCount).fill(null))`
placeholders(qs, w) ==
  IF variant = "Eager" /\ w = 0 THEN [i \in DOMAIN qs |-> NULL] ELSE qs

\* loadWindow(w) called once more for a fully loaded window, followed from
\* its first statement to the end with the source delivering `count`
\* questions again and nothing else happening in between
loadWindowAgain ==
  /\ Displayed
  /\ inflight = NONE
  /\ reloads < MaxReloads
  /\ \E w \in requestedSet :
       /\ windowLoaded(w)
       /\ requested' = Append(requested, w)
       /\ \E subs \in subjectsOf(count) :
            questions' =
              IF variant = "Eager"
              THEN fillBatch(placeholders(questions, w), startOffset(w),
                             Delivery(w, 0, subs))
              ELSE Concat(questions, sequenced(Delivery(w, 0, subs)))
       /\ timeLeft' = IF w = 0 THEN totalSeconds ELSE timeLeft
       /\ loading' = FALSE
       /\ loadingNext' = IF w = 0 /\ variant # "Grid" THEN loadingNext ELSE FALSE
  /\ UNCHANGED <<config, currentIndex, answers, isSubmitted, bookmarked,
                 currentWindow, inflight, saved, saveReplies, submitCalls,
                 navigated, failed, bmPending, bmAcked, bmCalls>>

(* ---------------- submission ---------------- *)
\* variant of handleSubmitReturns: the early return is missing
handleSubmitReturns_Never == FALSE

\* Grid handleSubmit opens with `if (isSubmitted) return;`, the others do not
handleSubmitReturns == variant = "Grid" /\ isSubmitted

\* handleSubmit up to its first await: setIsSubmitted(true), the score, and
\* the call of api.tests.save
handleSubmit ==
  /\ submitCalls' = submitCalls + 1
  /\ IF handleSubmitReturns
     THEN UNCHANGED <<isSubmitted, saved, saveReplies>>
     ELSE /\ isSubmitted' = TRUE
          /\ saved' = Append(saved, [score |-> score(questions, answers),
                                     total |-> total(questions)])
          /\ saveReplies' = Append(saveReplies, "pending")

\* variant of submitButtonShown: the button stays after submission
submitButtonShown_Always == TRUE

\* `{!isSubmitted && <button onClick={handleSubmit}>`
submitButtonShown == ~isSubmitted

\* the candidate clicks Submit
SubmitClick ==
  /\ Displayed
  /\ submitButtonShown
  /\ submitCalls < MaxSubmitCalls
  /\ handleSubmit
  /\ UNCHANGED <<config, questions, currentIndex, answers, loading, loadingNext,
                 timeLeft, bookmarked, currentWindow, inflight, requested,
                 navigated, failed, bmPending, bmAcked, bmCalls>>

\* variant of afterSave: a rejected save takes the session out of review
afterSave_RollsBack(sub, reply) == IF reply = "rejected" THEN FALSE ELSE sub

\* handleSubmit after `await api.tests.save(...)`: nothing follows the await
\* in the try block and the catch only logs, so isSubmitted stays as it is
afterSave(sub, reply) == sub

\* api.tests.save settles for one pending call
saveSettles(reply) ==
  /\ \E k \in DOMAIN saveReplies :
       /\ saveReplies[k] = "pending"
       /\ saveReplies' = [saveReplies EXCEPT ![k] = reply]
  /\ isSubmitted' = IF Mounted THEN afterSave(isSubmitted, reply) ELSE isSubmitted
  /\ UNCHANGED <<config, questions, currentIndex, answers, loading, loadingNext,
                 timeLeft, bookmarked, currentWindow, inflight, requested,
                 saved, submitCalls, navigated, failed, bmPending, bmAcked,
                 bmCalls>>

\* the POST /api/tests/save came back
SaveResolved == saveSettles("resolved")

\* fetch or res.json() threw
SaveRejected == saveSettles("rejected")

(* ---------------- Countdown ---------------- *)
\* variant of timerRuns: the interval is not cleared on submission
timerRuns_IgnoresSubmit == ~(loading \/ timeLeft <= 0)

\* `if (loading || isSubmitted || timeLeft <= 0) return;` before setInterval
timerRuns == ~(loading \/ isSubmitted \/ timeLeft <= 0)

\* the effect on timeLeft: `timeLeft === 0 && !isSubmitted && !loading`, and
\* `questions.length > 0` in the Grid variant
expiryFires(t) ==
  /\ t = 0 /\ ~isSubmitted /\ ~loading
  /\ (variant = "Grid" => Length(questions) > 0)

\* one interval tick and the effect that runs on the new timeLeft
Tick ==
  /\ Mounted
  /\ timerRuns
  /\ timeLeft' = timeLeft - 1
  /\ IF expiryFires(timeLeft - 1)
     THEN handleSubmit
     ELSE UNCHANGED <<isSubmitted, saved, saveReplies, submitCalls>>
  /\ UNCHANGED <<config, questions, currentIndex, answers, loading, loadingNext,
                 bookmarked, currentWindow, inflight, requested, navigated, failed,
                 bmPending, bmAcked, bmCalls>>

(* ---------------- AnswerTracker ---------------- *)
\* variant of optionsRendered: the options are shown for any current slot
optionsRendered_Always == TRUE

\* the option buttons exist: the Eager variant renders them only for a
\* Loaded current question
optionsRendered == variant = "Eager" => questions[currentIndex] # NULL
\* variant of optionDisabled: the option buttons are never disabled
optionDisabled_Never == FALSE

\* `disabled={isSubmitted}` on every option button
optionDisabled == isSubmitted

\* `setAnswers({ ...answers, [currentIndex]: idx })`
setAnswer(ans, slot, o) ==
  [i \in (DOMAIN ans) \cup {slot} |-> IF i = slot THEN o ELSE ans[i]]

selectOption ==
  /\ Displayed
  /\ optionsRendered
  /\ ~optionDisabled
  /\ (currentIndex \in DOMAIN answers \/ Cardinality(DOMAIN answers) < MaxAnswered)
  /\ \E o \in Options : answers' = setAnswer(answers, currentIndex, o)
  /\ UNCHANGED <<config, questions, currentIndex, isSubmitted, loading,
                 loadingNext, timeLeft, bookmarked, currentWindow, env>>

(* ---------------- navigation ---------------- *)
\* variant of windowAfter: every variant derives the window from the index
windowAfter_Derived(idx) ==
  IF type = "Full" THEN idx \div WindowSize ELSE currentWindow

\* Eager effect on currentIndex: `setCurrentWindow(Math.floor(currentIndex / 50))`
windowAfter(idx) ==
  IF variant = "Eager" /\ type = "Full" THEN idx \div WindowSize ELSE currentWindow

Previous ==
  /\ Displayed
  /\ currentIndex # 0
  /\ currentIndex' = Max(0, currentIndex - 1)
  /\ currentWindow' = windowAfter(currentIndex')
  /\ UNCHANGED <<config, questions, answers, isSubmitted, loading, loadingNext,
                 timeLeft, bookmarked, env>>

\* Grid: the Next button is disabled on the last question of a window that
\* still has a successor
nextDisabled ==
  /\ currentIndex = Length(questions) - 1
  /\ (variant = "Grid" => type = "Full" /\ currentWindow < NumWindows - 1)

\* Next; on the last question the Grid variant's button is FINISH EXAM
Next1 ==
  /\ Displayed
  /\ ~nextDisabled
  /\ IF variant = "Grid" /\ currentIndex = Length(questions) - 1
     THEN /\ submitCalls < MaxSubmitCalls
          /\ handleSubmit
          /\ UNCHANGED <<currentIndex, currentWindow>>
     ELSE /\ currentIndex' = IF variant = "Grid" THEN currentIndex + 1
                             ELSE Min(Length(questions) - 1, currentIndex + 1)
          /\ currentWindow' = windowAfter(currentIndex')
          /\ UNCHANGED <<isSubmitted, saved, saveReplies, submitCalls>>
  /\ UNCHANGED <<config, questions, answers, loading, loadingNext, timeLeft,
                 bookmarked, inflight, requested, navigated, failed, bmPending,
                 bmAcked, bmCalls>>

\* a palette button: `onClick={() => setCurrentIndex(idx)}`
PaletteJump ==
  /\ Displayed
  /\ \E idx \in DOMAIN questions :
       /\ idx # currentIndex
       /\ currentIndex' = idx
  /\ currentWindow' = windowAfter(currentIndex')
  /\ UNCHANGED <<config, questions, answers, isSubmitted, loading, loadingNext,
                 timeLeft, bookmarked, env>>

(* ---------------- window advancement ---------------- *)
isWindowComplete(windowIdx) ==
  \A i \in (windowIdx * WindowSize) ..
           (Min((windowIdx + 1) * WindowSize, Length(questions)) - 1) :
     i \in DOMAIN answers

canUnlockNextGated ==
  type = "Full" /\ currentWindow < NumWindows - 1 /\ isWindowComplete(currentWindow)
canUnlockNextGrid ==
  type = "Full" /\ currentWindow < NumWindows - 1 /\ currentIndex >= Length(questions) - 1
canUnlockNext == IF variant = "Gated" THEN canUnlockNextGated ELSE canUnlockNextGrid

\* the Unlock button: `canUnlockNext && (...)`, `&& !isSubmitted` in Grid,
\* `disabled={loadingNext}`
unlockEnabled ==
  /\ canUnlockNext
  /\ (variant = "Grid" => ~isSubmitted)
  /\ ~loadingNext

\* handleNextWindow with the synchronous start of loadWindow(nextWindow)
handleNextWindow ==
  /\ variant \in {"Gated", "Grid"}
  /\ Displayed
  /\ unlockEnabled
  /\ currentWindow' = currentWindow + 1
  /\ loadingNext' = TRUE
  /\ inflight' = [win |-> currentWindow + 1, got |-> 0, reqs |-> 0]
  /\ requested' = Append(requested, currentWindow + 1)
  /\ currentIndex' = IF variant = "Grid" THEN Length(questions) ELSE currentIndex
  /\ UNCHANGED <<config, questions, answers, isSubmitted, loading, timeLeft,
                 bookmarked, saved, saveReplies, submitCalls, navigated, failed, bmPending, bmAcked,
                 bmCalls>>

(* ---------------- bookmarks ---------------- *)
\* `disabled={bookmarked[currentIndex]}`; the Grid button is never disabled
bookmarkDisabled == variant # "Grid" /\ currentIndex \in bookmarked
\* Eager: the button sits inside `currentQuestion ? ... :` and handleBookmark
\* returns on `!q`
bookmarkRendered == variant = "Eager" => questions[currentIndex] # NULL

\* handleBookmark up to its await: api.bookmarks.add(questions[idx]) is called
handleBookmark ==
  /\ Displayed
  /\ bookmarkRendered
  /\ ~bookmarkDisabled
  /\ bmCalls < MaxBookmarkCalls
  /\ bmCalls' = bmCalls + 1
  /\ bmPending' = bmPending (+) SetToBag({[idx |-> currentIndex, sub |-> isSubmitted]})
  /\ UNCHANGED <<config, view, inflight, requested, saved, saveReplies, submitCalls,
                 navigated, failed, bmAcked>>

\* variant of markBookmarked: the acknowledgement toggles the mark
markBookmarked_Toggle(marks, idx) ==
  IF idx \in marks THEN marks \ {idx} ELSE marks \cup {idx}

\* variant of markBookmarked: marks are frozen once the session is submitted
markBookmarked_Frozen(marks, idx) ==
  IF isSubmitted THEN marks ELSE marks \cup {idx}

\* what the acknowledgement does to the bookmarked map:
\* `setBookmarked(prev => ({ ...prev, [idx]: true }))`
markBookmarked(marks, idx) == marks \cup {idx}

\* api.bookmarks.add resolved
BookmarkAck ==
  /\ \E p \in BagToSet(bmPending) :
       /\ bmPending' = bmPending (-) SetToBag({p})
       /\ bmAcked' = bmAcked \cup {p}
       /\ bookmarked' = IF Mounted THEN markBookmarked(bookmarked, p.idx) ELSE bookmarked
  /\ UNCHANGED <<config, questions, currentIndex, answers, isSubmitted, loading,
                 loadingNext, timeLeft, currentWindow, inflight, requested,
                 saved, saveReplies, submitCalls, navigated, failed, bmCalls>>

\* api.bookmarks.add rejected: the catch only logs
BookmarkFail ==
  /\ \E p \in BagToSet(bmPending) : bmPending' = bmPending (-) SetToBag({p})
  /\ UNCHANGED <<config, view, inflight, requested, saved, saveReplies, submitCalls,
                 navigated, failed, bmAcked, bmCalls>>

(* ---------------- specification ---------------- *)
Next ==
  \/ BatchArrive
  \/ loadWindowDoneEager
  \/ loadWindowFailedEager
  \/ batchAccumulated
  \/ loadWindowDoneAppend
  \/ loadWindowFailedAppend
  \/ SubmitClick
  \/ Tick
  \/ selectOption
  \/ Previous
  \/ Next1
  \/ PaletteJump
  \/ handleNextWindow
  \/ SaveResolved
  \/ SaveRejected

Spec == Init /\ [][Next]_vars

\* the session engine with loadWindow called a second time for a window
\* that is fully loaded
NextReload == Next \/ loadWindowAgain

SpecReload == Init /\ [][NextReload]_vars

\* the same session engine fed by a question source that mixes subjects
SpecSubjects == InitSubjects /\ [][Next]_vars

\* The bookmark handlers read questions, currentIndex and bookmarked and write
\* bookmarked only; this specification follows them through loading,
\* navigation, window advancement, the countdown and submission, with the
\* candidate leaving the answers alone and api.tests.save never answering.
NextBookmarks ==
  \/ BatchArrive
  \/ loadWindowDoneEager
  \/ loadWindowFailedEager
  \/ batchAccumulated
  \/ loadWindowDoneAppend
  \/ loadWindowFailedAppend
  \/ SubmitClick
  \/ Tick
  \/ Previous
  \/ Next1
  \/ PaletteJump
  \/ handleNextWindow
  \/ handleBookmark
  \/ BookmarkAck
  \/ BookmarkFail

SpecBookmarks == Init /\ [][NextBookmarks]_vars


(* ======================= properties ======================= *)

\* the score the specification asks for: Loaded slots answered correctly,
\* each answer compared with the question of its own slot
loadedCorrect(qs, ans) ==
  Cardinality({i \in validIdx(qs) : i \in DOMAIN ans /\ ans[i] = qs[i].correctAnswer})

\* C1: whenever handleSubmit calls SaveAttempt, the score it sends is the
\* number of Loaded slots whose answer equals the correctAnswer of the
\* question in the same slot, and the total is the number of Loaded slots.
C1_ScoreCountsLoadedSlots ==
  [][Len(saved') > Len(saved) =>
       saved'[Len(saved')] = [score |-> loadedCorrect(questions, answers),
                              total |-> Cardinality(validIdx(questions))]]_vars

\* C2: a submit() call on a session that was already submitted changes
\* neither the result sent to SaveAttempt nor the score, total and accuracy
\* shown in the review: N calls leave what the first call produced.
C2_SubmitIdempotent ==
  [][submitCalls' > submitCalls /\ submitCalls >= 1 =>
       /\ saved' = saved
       /\ isSubmitted' = isSubmitted
       /\ reviewSummary' = reviewSummary]_vars

\* C2 witness: submit() has been called twice and one result exists
C2_Witness == submitCalls >= 2 /\ Len(saved) = 1 /\ isSubmitted

\* C3: SaveAttempt is invoked at most once per session, and once the session
\* is Submitted no trigger (click, expiry, FINISH EXAM) changes isSubmitted or
\* invokes SaveAttempt again.
C3_SubmitOnce ==
  /\ [](Len(saved) <= 1)
  /\ [][isSubmitted => isSubmitted' /\ saved' = saved]_vars

\* C3 witness: the countdown ran out in a session that had loaded, and the
\* submission it caused is the only one
C3_Witness ==
  /\ variant = "Gated" /\ ~loading /\ timeLeft = 0
  /\ isSubmitted /\ Len(saved) = 1

\* C4: once the session is Submitted the AnswerMap never changes.
C4_AnswersFrozen == [][isSubmitted => answers' = answers]_vars

\* C4 witness: a submitted session on screen with a recorded answer and the
\* option buttons of a Loaded question rendered
C4_Witness ==
  /\ isSubmitted /\ Displayed /\ optionsRendered
  /\ currentIndex \in DOMAIN answers

C6_AckedBookmarksPersist ==
  Mounted => \A a \in bmAcked : a.idx \in bookmarked

\* C6 witness: slot i bookmarked before submitting, a different slot j after,
\* both acknowledged
C6_Witness ==
  /\ Mounted /\ isSubmitted
  /\ \E a, b \in bmAcked :
       /\ ~a.sub /\ b.sub /\ a.idx # b.idx
       /\ {a.idx, b.idx} \subseteq bookmarked

\* C7: a slot that holds a question keeps that very question in every later
\* state: it never becomes Locked again and is never overwritten.
C7_SlotsOnlyLoad ==
  [][\A i \in DOMAIN questions :
       questions[i] # NULL =>
         i \in DOMAIN questions' /\ questions'[i] = questions[i]]_vars

\* C7 witness: two loads were requested and slots of two windows hold
\* questions
C7_Witness ==
  /\ Len(requested) >= 2
  /\ \E i, j \in validIdx(questions) : questions[i].win # questions[j].win

\* C8: once the session is Submitted the slot array never changes (batches
\* that arrive later are discarded).
C8_NoWritesAfterSubmit == [][isSubmitted => questions' = questions]_vars

\* the slots that belong to window w and exist
slotsOfWindow(w) == {i \in DOMAIN questions : i \div WindowSize = w}

\* C9: in a Full session with the Unlock Next button, the next window's load
\* is requested and currentWindow increases only when every slot of the
\* current window has an AnswerMap entry.
C9_UnlockOnlyWhenComplete ==
  [][/\ type = "Full"
     /\ variant \in {"Gated", "Grid"}
     /\ (currentWindow' > currentWindow \/ Len(requested') > Len(requested))
     => slotsOfWindow(currentWindow) \subseteq DOMAIN answers]_vars

C11_LaterFailureKeepsSession ==
  [][Displayed /\ (\E w \in failed' \ failed : w >= 1) =>
       Displayed' /\ questions' = questions]_vars

\* C12: once the load of window 0 has failed, the session has left for the
\* prior screen and it never was nor becomes Active: no answer was recorded,
\* nothing was submitted or saved.
C12_FirstWindowFailureFatal ==
  [](0 \in failed =>
       /\ navigated /\ ~Displayed
       /\ answers = << >> /\ ~isSubmitted /\ saved = << >> /\ submitCalls = 0)

\* C12 witness: window 0 failed before any question arrived
C12_Witness == 0 \in failed /\ navigated /\ validIdx(questions) = {}

\* C13: the tick that takes the countdown to 0 in an Active, unsubmitted
\* session submits it in the same step, and the result sent counts every
\* Loaded slot in total (Locked slots not), and in score only the Loaded
\* slots whose own answer is correct: a Loaded, unanswered slot adds nothing.
C13_ExpiryAutoSubmits ==
  [][Displayed /\ ~isSubmitted /\ timeLeft = 1 /\ timeLeft' = 0 =>
       /\ isSubmitted'
       /\ Len(saved') = Len(saved) + 1
       /\ saved'[Len(saved')] = [score |-> loadedCorrect(questions, answers),
                                 total |-> Cardinality(validIdx(questions))]]_vars

\* C14: timeLeft is never negative; a step that changes it either is a tick
\* of an Active, unsubmitted session taking exactly one second off, or is the
\* end of the window-0 load setting the full duration; and no step of a
\* Submitted session changes it.
C14_TimerBounded ==
  /\ [](timeLeft >= 0)
  /\ [][timeLeft' # timeLeft =>
          \/ timeLeft' = timeLeft - 1 /\ ~loading /\ ~isSubmitted
          \/ timeLeft' = totalSeconds /\ inflight.win = 0]_vars
  /\ [][isSubmitted => timeLeft' = timeLeft]_vars

\* C14 witness: a submitted session on screen whose countdown had started
\* ticking and stopped with time to spare
C14_Witness == Displayed /\ isSubmitted /\ timeLeft > 0 /\ timeLeft < totalSeconds

\* C15: in a Full session the Loaded questions of one window, read in slot
\* order, follow the subject sequence: no question of a subject later in the
\* table sits before a question of an earlier one.
C15_SubjectsInSequence ==
  type = "Full" =>
    \A i, j \in validIdx(questions) :
      i < j /\ questions[i].win = questions[j].win =>
        indexOf(questions[i].subject) <= indexOf(questions[j].subject)

\* C16: a second loadWindow(w) for a window whose slots are all Loaded is a
\* no-op: it leaves every slot of every window and the answers as they were.
C16_ReloadIsNoOp ==
  [][/\ Len(requested') > Len(requested)
     /\ requested'[Len(requested')] \in requestedSet
     => questions' = questions /\ answers' = answers]_vars

\* C17: the outcome of api.tests.save changes nothing the candidate sees: a
\* step in which a save call resolves or rejects leaves the whole view
\* (isSubmitted, questions, answers and with them the review summary) as it
\* was, and the session is Submitted from the step that made the call, while
\* the call is still pending.
C17_SaveOutcomeIgnored ==
  /\ [][saveReplies' # saveReplies /\ Len(saveReplies') = Len(saveReplies) =>
          view' = view /\ reviewSummary' = reviewSummary /\ Displayed' = Displayed]_vars
  /\ [][Len(saveReplies') > Len(saveReplies) => isSubmitted']_vars
  /\ [](saveReplies # << >> => isSubmitted)

\* C17 witness: the review is on screen although the save was rejected
C17_Witness ==
  /\ Displayed /\ isSubmitted
  /\ \E k \in DOMAIN saveReplies : saveReplies[k] = "rejected"

\* C18: every index with an answer is the index of a Loaded slot: the answers
\* never name a null placeholder or an index outside the question array.
C18_NoAnswerOnLockedSlot ==
  \A i \in DOMAIN answers : i \in DOMAIN questions /\ questions[i] # NULL

\* C18 witness: the candidate has answered a slot and now stands on a Locked
\* slot of the palette with the session Active
C18_Witness ==
  /\ Displayed /\ ~isSubmitted /\ answers # << >>
  /\ questions[currentIndex] = NULL

\* C19: once the load of window 0 has received its first questions the
\* session is Active: loading is false while the rest of window 0 is still
\* on its way.
C19_ActiveOnFirstBatch ==
  inflight.win = 0 /\ inflight.got >= 1 /\ ~navigated => ~loading

\* C20: the session is never Active with an empty question set: when loading
\* has ended and the candidate was not sent back, a question is Loaded.
C20_NoActiveSessionWithoutQuestions ==
  ~loading /\ ~navigated => validIdx(questions) # {}

\* C21: after submission the review summary is on screen and the score and
\* total it shows are the score and total that handleSubmit sent to
\* SaveAttempt, also when slots were still Locked at submission.
C21_ReviewShowsSavedResult ==
  isSubmitted /\ saved # << >> /\ ~navigated =>
    /\ ~RenderThrows
    /\ reviewSummary.score = saved[Len(saved)].score
    /\ reviewSummary.total = saved[Len(saved)].total

\* C22: in a Full session of the Eager variant the windows are requested in
\* index order 0, 1, ... without a repeat; a request for window n is made in
\* the step that ends the load of window n - 1, which is the only load in
\* flight; and every question written belongs to the window requested last.
C22_EagerLoadsInOrder ==
  /\ [](variant = "Eager" /\ type = "Full" =>
          /\ Len(requested) <= NumWindows
          /\ \A k \in DOMAIN requested : requested[k] = k - 1
          /\ inflight.win \in {-1, requested[Len(requested)]})
  /\ [][variant = "Eager" /\ type = "Full" /\ Len(requested') > Len(requested) =>
          /\ inflight.win = requested[Len(requested)]
          /\ requested' = Append(requested, inflight.win + 1)
          /\ inflight' = [win |-> inflight.win + 1, got |-> 0, reqs |-> 0]]_vars
  /\ [][variant = "Eager" /\ type = "Full" =>
          \A i \in DOMAIN questions :
            questions'[i] # questions[i] =>
              questions'[i].win = requested[Len(requested)]]_vars

\* C22 witness: the last window was requested after the one before it had
\* delivered, and has delivered a question itself
C22_Witness ==
  /\ variant = "Eager" /\ type = "Full"
  /\ Len(requested) = NumWindows
  /\ \A w \in 0 .. (NumWindows - 1) :
       \E i \in validIdx(questions) : questions[i].win = w

\* a load of the Gated or Grid variant ends in this step without a failure
loadResolves == variant # "Eager" /\ inflight # NONE /\ inflight' = NONE /\ failed' = failed

\* C23: generateQuestions(subject, count, windowIndex) rejects only on a
\* failed batch request made while nothing was accumulated; a call that
\* resolves hands over at most `count` questions (in the Grid variant, which
\* appends them as they are, exactly the accumulated ones cut at `count`),
\* also after a failed batch with questions accumulated; and no call issues
\* more than ceil(count / batchSize) batch requests.
C23_GenerateQuestionsContract ==
  /\ [][variant # "Eager" /\ failed' # failed =>
          inflight.got = 0 /\ inflight.reqs < batches]_vars
  /\ [][loadResolves /\ Mounted =>
          /\ Length(questions') - Length(questions) <= count
          /\ variant = "Grid" =>
               Length(questions') - Length(questions) = Min(inflight.got, count)]_vars
  /\ [](inflight.reqs <= batches)

\* C23 witness: a Grid session on screen whose generateQuestions call resolved
\* with fewer questions than asked for
C23_Witness ==
  /\ variant = "Grid" /\ Displayed /\ inflight = NONE
  /\ Length(questions) > 0 /\ Length(questions) < count

\* the slots that hold the questions delivered by the load of window w
deliveredBy(w) == {i \in validIdx(questions) : questions[i].win = w}

\* C24: in a Full session of the Gated variant the questions delivered by the
\* load of window w sit in the slots [w * windowSize, (w + 1) * windowSize),
\* and isWindowComplete(w) is true exactly when that load has delivered
\* questions and every one of them has an answer.
C24_CompleteMeansDeliveredAnswered ==
  variant = "Gated" /\ type = "Full" /\ Displayed =>
    \A w \in 0 .. (NumWindows - 1) :
      /\ \A i \in deliveredBy(w) : i \div WindowSize = w
      /\ isWindowComplete(w) <=>
           (deliveredBy(w) # {} /\ deliveredBy(w) \subseteq DOMAIN answers)

\* the slots of window w's range that exist in the array qs
rangeOf(qs, w) == {i \in DOMAIN qs : i \div WindowSize = w}

C26_CurrentIndexInRange ==
  ~loading /\ ~navigated /\ Length(questions) > 0 =>
    0 <= currentIndex /\ currentIndex < Length(questions)

\* C27: in the Gated variant a load whose generateQuestions call returned the
\* full `count` appends exactly `count` questions, whatever the static pool
\* returned.
C27_BlendKeepsCount ==
  [][variant = "Gated" /\ loadResolves /\ Mounted /\ returned(inflight.got) = count =>
       Length(questions') - Length(questions) = count]_vars

\* C28: AddBookmark is called at most once per slot index, however clicks
\* and acknowledgements interleave, and never for a Locked slot: a call is
\* made for a Loaded slot for which no call is pending or acknowledged.
C28_OneAddBookmarkPerSlot ==
  [][bmCalls' > bmCalls =>
       /\ currentIndex \in validIdx(questions)
       /\ ~\E p \in BagToSet(bmPending) \cup bmAcked : p.idx = currentIndex]_vars

\* C29: in the Eager variant, from the failure of window 0's load on, no
\* further window load is requested and no second load fails (the failure
\* notice is raised once).
C29_NoLoadsAfterFatalFailure ==
  [][variant = "Eager" /\ 0 \in failed' =>
       /\ requested' = <<0>>
       /\ failed' = {0}]_vars

\* C30: when the load of a later window (index >= 1) ends in a mounted
\* session and no further load follows it, loadingNext is false after the
\* step, whether the load completed or failed.
C30_LoadingNextCleared ==
  [][Mounted /\ inflight.win >= 1 /\ inflight' = NONE => ~loadingNext']_vars

====
